---- MODULE Spec2Model ----
(***************************************************************************)
(* AppFileManager (marimo/_server/file_manager.py): the on-disk lifecycle  *)
(* of a notebook.  One manager, one filesystem.  A filename is a sequence  *)
(* of tokens (<<"/", "a", ".py">> is /a.py, <<"a">> is the relative name   *)
(* a); the empty sequence is Python's None.  The filesystem maps absolute  *)
(* paths to file contents.                                                 *)
(***************************************************************************)
EXTENDS Integers, Sequences, FiniteSets, TLC

VARIABLES filename, app, fs, op, again, calls

vars == <<filename, app, fs, op, again, calls>>

\* Calls made on the manager after its construction.
MaxCalls == 2

----------------------------------------------------------------------------
\* Values

None == <<>>

\* Filenames callers pass: relative and without extension, markup, and a
\* second notebook.
RawNames == { <<"a">>, <<"/", "a", ".md">>, <<"/", "b", ".py">> }

A_PY == <<"/", "a", ".py">>
A_MD == <<"/", "a", ".md">>
B_PY == <<"/", "b", ".py">>
A_LAYOUT == <<"/", "layouts", "a", ".json">>
B_LAYOUT == <<"/", "layouts", "b", ".json">>

C_CSS == <<"/", "c", ".css">>
H_HEAD == <<"/", "h", ".html">>

NotebookPaths == {A_PY, A_MD, B_PY}
LayoutPaths == {A_LAYOUT, B_LAYOUT}
SidePaths == LayoutPaths \cup {C_CSS, H_HEAD}
Paths == NotebookPaths \cup SidePaths

EmptyCell == [code |-> "", name |-> "_", config |-> "default"]
CellX == [code |-> "x=1", name |-> "f", config |-> "hidden"]
Cells == {EmptyCell, CellX}

\* Cell lists a save request carries.
CellLists == { <<>>, <<CellX, EmptyCell>> }

\* _AppConfig: the side-file references, relative names or None.
DefaultConfig ==
  [layout_file |-> None, css_file |-> None, html_head_file |-> None]

CSS_NAME == <<"c", ".css">>
HEAD_NAME == <<"h", ".html">>

\* File contents.  kind: "nofile" (no file at the path), "empty" (zero
\* bytes), "py" (native notebook text), "md" (markup notebook text),
\* "layout" (a layout side file), "text" (bytes that are no notebook), "css"
\* and "html" (the two other side files).  Every file that is not empty ends
\* with a newline; a kind ending in ".strip" is that text without it.
Content(k, h, cs, cfg) == [kind |-> k, header |-> h, cells |-> cs, config |-> cfg]
NoFile == Content("nofile", "", <<>>, DefaultConfig)
EmptyFile == Content("empty", "", <<>>, DefaultConfig)
TextFile == Content("text", "", <<>>, DefaultConfig)
LayoutJson == Content("layout", "", <<>>, DefaultConfig)
\* A layout file written before the manager was constructed.
OldLayout == Content("layout", "old", <<>>, DefaultConfig)
CssFile == Content("css", "", <<>>, DefaultConfig)
HeadFile == Content("html", "", <<>>, DefaultConfig)
NoText == Content("none", "", <<>>, DefaultConfig)

----------------------------------------------------------------------------
\* Paths

EndsWith(f, ext) == Len(f) > 0 /\ f[Len(f)] = ext

\* os.path.abspath: a relative name is resolved against the working
\* directory, here the root.
Abspath(f) == IF Len(f) > 0 /\ f[1] = "/" THEN f ELSE <<"/">> \o f

\* canonicalize_filename: default the extension, make the name absolute.
Canonicalize(f) ==
  LET g == IF EndsWith(f, ".py") \/ EndsWith(f, ".md") THEN f
           ELSE Append(f, ".py")
  IN  Abspath(g)

\* filename[-3:]: the extension, or the tail of a name without one.
Last3(f) == f[Len(f)]

\* os.path.exists
Exists(files, f) == files[Abspath(f)].kind # "nofile"

IsSamePathStem(cur, f) ==
  IF cur = None THEN FALSE
  ELSE Abspath(cur)[Len(Abspath(cur)) - 1] = Abspath(f)[Len(Abspath(f)) - 1]

IsSamePathNever(cur, f) == FALSE

\* AppFileManager._is_same_path
IsSamePath(cur, f) ==
  IF cur = None THEN FALSE ELSE Abspath(cur) = Abspath(f)

\* AppFileManager.path
Path(cur) == IF cur = None THEN None ELSE Abspath(cur)

----------------------------------------------------------------------------
\* Document, serializer, parser

\* InternalApp.with_data: the cell, name and config lists are replaced.
WithData(ap, cs) == [ap EXCEPT !.cells = cs]

\* InternalApp.update_config: the keys the partial config holds are merged.
UpdateConfig(ap, p) ==
  [ap EXCEPT !.config =
     [layout_file |-> IF "layout_file" \in DOMAIN p THEN p.layout_file
                      ELSE ap.config.layout_file,
      css_file |-> IF "css_file" \in DOMAIN p THEN p.css_file
                   ELSE ap.config.css_file,
      html_head_file |-> IF "html_head_file" \in DOMAIN p THEN p.html_head_file
                         ELSE ap.config.html_head_file]]

\* codegen.get_header_comments: the comment block of the native file
\* currently at the path, "" when there is none.
GetHeaderComments(files, f) ==
  LET c == files[Abspath(f)] IN IF c.kind = "py" THEN c.header ELSE ""

\* codegen.generate_filecontents
GenerateFilecontents(cs, cfg, header) == Content("py", header, cs, cfg)

\* Exporter.export_as_md: the markup text of the manager's document.
ExportAsMd(ap) == Content("md", "", ap.cells, ap.config)

\* codegen.get_app: the document a file holds, found = FALSE for None.
GetApp(files, path) ==
  LET c == IF path = None THEN NoFile ELSE files[path] IN
  [found |-> c.kind \in {"py", "md"}, cells |-> c.cells, config |-> c.config]

\* CellManager.ensure_one_cell
EnsureOneCell(cs) == IF cs = <<>> THEN <<EmptyCell>> ELSE cs

\* AppFileManager._load_app
LoadApp(files, path) ==
  LET parsed == GetApp(files, path) IN
  IF ~parsed.found
  THEN [cells |-> <<EmptyCell>>, config |-> DefaultConfig]
  ELSE [cells |-> EnsureOneCell(parsed.cells), config |-> parsed.config]

----------------------------------------------------------------------------
\* Filesystem calls.  io names what the operating system does to the call:
\* "ok"; "open_fail" (open raises, nothing changed); "write_fail" (the file
\* was opened for writing, hence truncated, and the write raises).

CreateOutcomes == {"ok", "open_fail", "write_fail"}
RenameOutcomes == {"ok", "fail"}
IO == [create : CreateOutcomes, rename : RenameOutcomes]

CreateFileSwallows(files, f, contents, io) ==
  CASE io = "ok" -> [fs |-> [files EXCEPT ![Abspath(f)] = contents], ok |-> TRUE]
    [] io = "open_fail" -> [fs |-> files, ok |-> TRUE]
    [] OTHER -> [fs |-> [files EXCEPT ![Abspath(f)] = EmptyFile], ok |-> TRUE]

\* AppFileManager._create_file
CreateFile(files, f, contents, io) ==
  CASE io = "ok" -> [fs |-> [files EXCEPT ![Abspath(f)] = contents], ok |-> TRUE]
    [] io = "open_fail" -> [fs |-> files, ok |-> FALSE]
    [] OTHER -> [fs |-> [files EXCEPT ![Abspath(f)] = EmptyFile], ok |-> FALSE]

RenameFileCopies(files, old, new, io) ==
  IF io = "ok" /\ Exists(files, old)
  THEN [fs |-> [files EXCEPT ![Abspath(new)] = files[Abspath(old)]], ok |-> TRUE]
  ELSE [fs |-> files, ok |-> FALSE]

\* AppFileManager._rename_file: os.rename moves the file, and raises when
\* there is no file to move.
RenameFile(files, old, new, io) ==
  IF io = "ok" /\ Exists(files, old)
  THEN [fs |-> [files EXCEPT ![Abspath(new)] = files[Abspath(old)],
                             ![Abspath(old)] = NoFile],
        ok |-> TRUE]
  ELSE [fs |-> files, ok |-> FALSE]

\* save_layout_config: writes <dir>/layouts/<name>.json, returns its name
\* relative to the notebook's directory.
LayoutName(f) == <<"layouts", f[Len(f) - 1], ".json">>

SaveLayoutConfig(files, f) ==
  [fs |-> [files EXCEPT ![Abspath(LayoutName(f))] = LayoutJson],
   name |-> LayoutName(f)]

----------------------------------------------------------------------------
\* Operations.  Each maps the manager's state st = [filename, app, fs] and
\* its arguments to the state after the call, its status ("ok",
\* "bad_request", "server_error" for the two HTTPException classes,
\* "io_error" for any other exception) and the value returned.

R(fname, ap, files, status, ret) ==
  [filename |-> fname, app |-> ap, fs |-> files, status |-> status, ret |-> ret]

St(fname, ap, files) == [filename |-> fname, app |-> ap, fs |-> files]

NeedSaveNever(old, new) == FALSE

\* rename: need_save = self.filename[-3:] != new_filename[-3:]
NeedSave(old, new) == Last3(old) # Last3(new)

AssertPathDoesNotExistSkipped(files, f) == TRUE

\* AppFileManager._assert_path_does_not_exist: TRUE when the call returns.
AssertPathDoesNotExist(files, f) == ~Exists(files, f)

RECURSIVE SaveFile(_, _, _, _, _, _)
RECURSIVE Rename(_, _, _)

SaveFileNoHeader(st, f, cs, cfg, persist, io) ==
  LET contents == IF EndsWith(f, ".md") THEN ExportAsMd(st.app)
                  ELSE GenerateFilecontents(cs, cfg, "")
      created == IF persist THEN CreateFile(st.fs, f, contents, io.create)
                 ELSE [fs |-> st.fs, ok |-> TRUE]
  IN  IF ~created.ok
      THEN R(st.filename, st.app, created.fs, "server_error", NoText)
      ELSE IF st.filename = None
      THEN LET r == Rename(St(st.filename, st.app, created.fs), f, io) IN
           IF r.status = "ok" THEN [r EXCEPT !.ret = contents] ELSE r
      ELSE R(st.filename, st.app, created.fs, "ok", contents)

\* AppFileManager._save_file
SaveFile(st, f, cs, cfg, persist, io) ==
  LET contents == IF EndsWith(f, ".md") THEN ExportAsMd(st.app)
                  ELSE GenerateFilecontents(cs, cfg, GetHeaderComments(st.fs, f))
      created == IF persist THEN CreateFile(st.fs, f, contents, io.create)
                 ELSE [fs |-> st.fs, ok |-> TRUE]
  IN  IF ~created.ok
      THEN R(st.filename, st.app, created.fs, "server_error", NoText)
      ELSE IF st.filename = None
      THEN LET r == Rename(St(st.filename, st.app, created.fs), f, io) IN
           IF r.status = "ok" THEN [r EXCEPT !.ret = contents] ELSE r
      ELSE R(st.filename, st.app, created.fs, "ok", contents)

\* AppFileManager.rename
Rename(st, f, io) ==
  LET new_filename == Canonicalize(f) IN
  IF IsSamePath(st.filename, new_filename)
  THEN R(st.filename, st.app, st.fs, "ok", NoText)
  ELSE IF ~AssertPathDoesNotExist(st.fs, new_filename)
  THEN R(st.filename, st.app, st.fs, "bad_request", NoText)
  ELSE IF st.filename # None
  THEN LET need_save == NeedSave(st.filename, new_filename)
           moved == RenameFile(st.fs, st.filename, new_filename, io.rename)
       IN  IF ~moved.ok
           THEN R(st.filename, st.app, moved.fs, "server_error", NoText)
           ELSE IF need_save
           THEN LET r == SaveFile(St(new_filename, st.app, moved.fs),
                                  new_filename, st.app.cells, st.app.config,
                                  TRUE, io)
                IN  [r EXCEPT !.ret = NoText]
           ELSE R(new_filename, st.app, moved.fs, "ok", NoText)
  ELSE LET created == CreateFile(st.fs, new_filename, EmptyFile, io.create) IN
       IF ~created.ok
       THEN R(st.filename, st.app, created.fs, "server_error", NoText)
       ELSE R(new_filename, st.app, created.fs, "ok", NoText)

SaveRemovesLayout(st, req, io) ==
  LET fname == Canonicalize(req.filename)
      app1 == WithData(st.app, req.cells)
  IN  IF st.filename # None /\ ~IsSamePath(st.filename, fname)
      THEN R(st.filename, app1, st.fs, "bad_request", NoText)
      ELSE IF req.layout
      THEN LET lay == SaveLayoutConfig(st.fs, fname)
               app2 == UpdateConfig(app1, [layout_file |-> lay.name])
           IN  SaveFile(St(st.filename, app2, lay.fs), fname, req.cells,
                        app2.config, req.persist, io)
      ELSE LET app2 == UpdateConfig(app1, [layout_file |-> None])
               old == app1.config.layout_file
               files == IF old = None THEN st.fs
                        ELSE [st.fs EXCEPT ![Abspath(old)] = NoFile]
           IN  SaveFile(St(st.filename, app2, files), fname, req.cells,
                        app2.config, req.persist, io)

\* AppFileManager.save; req = [filename, cells, layout, persist]
Save(st, req, io) ==
  LET fname == Canonicalize(req.filename)
      app1 == WithData(st.app, req.cells)
  IN  IF st.filename # None /\ ~IsSamePath(st.filename, fname)
      THEN R(st.filename, app1, st.fs, "bad_request", NoText)
      ELSE IF req.layout
      THEN LET lay == SaveLayoutConfig(st.fs, fname)
               app2 == UpdateConfig(app1, [layout_file |-> lay.name])
           IN  SaveFile(St(st.filename, app2, lay.fs), fname, req.cells,
                        app2.config, req.persist, io)
      ELSE LET app2 == UpdateConfig(app1, [layout_file |-> None]) IN
           SaveFile(St(st.filename, app2, st.fs), fname, req.cells,
                    app2.config, req.persist, io)

SaveAppConfigUnmerged(st, partial, io) ==
  LET app1 == UpdateConfig(st.app, partial) IN
  IF st.filename # None
  THEN SaveFile(St(st.filename, app1, st.fs), st.filename, app1.cells,
                st.app.config, TRUE, io)
  ELSE R(st.filename, st.app, st.fs, "ok", EmptyFile)

\* AppFileManager.save_app_config
SaveAppConfig(st, partial, io) ==
  LET app1 == UpdateConfig(st.app, partial) IN
  IF st.filename # None
  THEN SaveFile(St(st.filename, app1, st.fs), st.filename, app1.cells,
                app1.config, TRUE, io)
  ELSE R(st.filename, app1, st.fs, "ok", EmptyFile)

ReloadUnnames(st) ==
  R(IF GetApp(st.fs, Path(st.filename)).found THEN st.filename ELSE None,
    LoadApp(st.fs, Path(st.filename)), st.fs, "ok", NoText)

\* AppFileManager.reload (the reordering of cell ids leaves the cells)
Reload(st) ==
  R(st.filename, LoadApp(st.fs, Path(st.filename)), st.fs, "ok", NoText)

\* AppFileManager.copy: shutil.copy
Copy(st, source, destination) ==
  IF Exists(st.fs, source) /\ Abspath(source) # Abspath(destination)
  THEN R(st.filename, st.app,
         [st.fs EXCEPT ![Abspath(destination)] = st.fs[Abspath(source)]],
         "ok", NoText)
  ELSE R(st.filename, st.app, st.fs, "io_error", NoText)

\* str.strip: the text without its surrounding whitespace.
Strip(c) ==
  IF c.kind = "empty" THEN c
  ELSE [c EXCEPT !.kind = CASE c.kind = "py" -> "py.strip"
                            [] c.kind = "md" -> "md.strip"
                            [] c.kind = "text" -> "text.strip"
                            [] OTHER -> "side.strip"]

ReadFileUntrimmed(st) ==
  IF st.filename = None
  THEN R(st.filename, st.app, st.fs, "bad_request", NoText)
  ELSE IF ~Exists(st.fs, st.filename)
  THEN R(st.filename, st.app, st.fs, "io_error", NoText)
  ELSE R(st.filename, st.app, st.fs, "ok", st.fs[Abspath(st.filename)])

\* AppFileManager.read_file
ReadFile(st) ==
  IF st.filename = None
  THEN R(st.filename, st.app, st.fs, "bad_request", NoText)
  ELSE IF ~Exists(st.fs, st.filename)
  THEN R(st.filename, st.app, st.fs, "io_error", NoText)
  ELSE R(st.filename, st.app, st.fs, "ok", Strip(st.fs[Abspath(st.filename)]))

\* os.path.join(os.path.dirname(filename), name): every notebook lies in
\* the root directory.
SidePath(name, fname) == <<"/">> \o name

\* What happens between os.path.exists and open: nothing; the file is
\* removed by someone else; the file cannot be opened.
Races == {"none", "vanish", "unreadable"}

ReadSideFileRaises(st, name, race) ==
  IF name = None \/ st.filename = None
  THEN R(st.filename, st.app, st.fs, "ok", NoText)
  ELSE LET p == SidePath(name, st.filename) IN
       IF ~Exists(st.fs, p) \/ race = "unreadable"
       THEN R(st.filename, st.app, st.fs, "io_error", NoText)
       ELSE IF race = "vanish"
       THEN R(st.filename, st.app, [st.fs EXCEPT ![p] = NoFile], "io_error", NoText)
       ELSE R(st.filename, st.app, st.fs, "ok", st.fs[p])

\* AppFileManager.read_css_file / read_html_head_file with the module's
\* read_css_file / read_html_head_file; NoText is the absent result.
ReadSideFile(st, name, race) ==
  IF name = None \/ st.filename = None
  THEN R(st.filename, st.app, st.fs, "ok", NoText)
  ELSE LET p == SidePath(name, st.filename) IN
       IF ~Exists(st.fs, p) \/ race = "unreadable"
       THEN R(st.filename, st.app, st.fs, "ok", NoText)
       ELSE IF race = "vanish"
       THEN R(st.filename, st.app, [st.fs EXCEPT ![p] = NoFile], "ok", NoText)
       ELSE R(st.filename, st.app, st.fs, "ok", st.fs[p])

\* AppFileManager.to_code
ToCode(st) ==
  R(st.filename, st.app, st.fs, "ok",
    GenerateFilecontents(st.app.cells, st.app.config, ""))

----------------------------------------------------------------------------
\* Construction

\* A native notebook with a header comment block, as found on disk.
NativeH == Content("py", "#!h", <<CellX>>, DefaultConfig)
\* A native notebook without cells.
NativeNoCells == Content("py", "", <<>>, DefaultConfig)
MarkupFile == Content("md", "", <<CellX>>, DefaultConfig)
\* A native notebook whose config names its three side files.
NativeSide ==
  Content("py", "#!h", <<CellX>>,
          [layout_file |-> <<"layouts", "a", ".json">>, css_file |-> CSS_NAME,
           html_head_file |-> HEAD_NAME])

Files(a, m, b) ==
  [p \in Paths |->
     CASE p = A_PY -> a
       [] p = A_MD -> m
       [] p = B_PY -> b
       [] OTHER -> NoFile]

WithSideFiles(files) ==
  [files EXCEPT ![A_LAYOUT] = OldLayout, ![C_CSS] = CssFile, ![H_HEAD] = HeadFile]

\* Filesystems a manager is constructed on: nothing there; the notebook
\* alone; a notebook without cells next to another notebook; bytes that are
\* no notebook next to a markup notebook; all three notebooks and the side
\* files the first one names.
InitFs ==
  { Files(NoFile, NoFile, NoFile),
    Files(NativeH, NoFile, NoFile),
    Files(NativeNoCells, NoFile, NativeH),
    Files(TextFile, MarkupFile, NoFile),
    WithSideFiles(Files(NativeSide, MarkupFile, NativeH)) }

\* Filenames a manager is constructed with.
InitNames == {None, <<"a", ".py">>, <<"/", "a", ".md">>}

Op(kind, arg, persist, layout, status, ret) ==
  [kind |-> kind, arg |-> arg, persist |-> persist, layout |-> layout,
   status |-> status, ret |-> ret]

NewManagerUnnamedWhenUnparsable(f, files) ==
  LET found == GetApp(files, Path(f)).found IN
  St(IF found THEN f ELSE None, LoadApp(files, Path(f)), files)

\* AppFileManager.__init__
NewManager(f, files) == St(f, LoadApp(files, Path(f)), files)

\* AppFileManager.from_app
ManagerFromApp(ap, files) == [NewManager(None, files) EXCEPT !.app = ap]

Construct ==
  \E f \in InitNames, files \in InitFs :
    /\ filename = NewManager(f, files).filename
    /\ fs = files
    /\ app = NewManager(f, files).app
    /\ op = Op("init", f, FALSE, FALSE, "ok", NoText)
    /\ again = FALSE
    /\ calls = 0

FromApp ==
  \E cs \in {<<EmptyCell>>, <<CellX>>}, files \in InitFs :
    LET m == ManagerFromApp([cells |-> cs, config |-> DefaultConfig], files) IN
    /\ filename = m.filename
    /\ fs = files
    /\ app = m.app
    /\ op = Op("from_app", None, FALSE, FALSE, "ok", NoText)
    /\ again = FALSE
    /\ calls = 0

Init == Construct \/ FromApp

----------------------------------------------------------------------------
\* Calls

\* op is the call made last, with its status and the value it returned;
\* again says that the call before it was the same call and returned.
Now == St(filename, app, fs)

Becomes(r, kind, arg, persist, layout) ==
  /\ calls < MaxCalls
  /\ calls' = calls + 1
  /\ filename' = r.filename
  /\ app' = r.app
  /\ fs' = r.fs
  /\ op' = Op(kind, arg, persist, layout, r.status, r.ret)
  /\ again' = (op.kind = kind /\ op.arg = arg /\ op.status = "ok")

Io(c, r) == [create |-> c, rename |-> r]

PartialConfigs == { [layout_file |-> None], [css_file |-> CSS_NAME] }

\* The key a partial config sets, as the call's recorded argument.
KeyOf(p) == IF "layout_file" \in DOMAIN p THEN <<"layout_file">> ELSE <<"css_file">>

CallSave ==
  \E f \in RawNames, cs \in CellLists, layout \in BOOLEAN, persist \in BOOLEAN :
    \E c \in (IF persist \/ filename = None THEN CreateOutcomes ELSE {"ok"}) :
      Becomes(Save(Now, [filename |-> f, cells |-> cs, layout |-> layout,
                         persist |-> persist], Io(c, "ok")),
              "save", f, persist, layout)

CallRename ==
  \E f \in RawNames, c \in CreateOutcomes,
     o \in (IF filename # None THEN RenameOutcomes ELSE {"ok"}) :
    Becomes(Rename(Now, f, Io(c, o)), "rename", f, FALSE, FALSE)

CallSaveAppConfig ==
  \E p \in PartialConfigs,
     c \in (IF filename # None THEN CreateOutcomes ELSE {"ok"}) :
    Becomes(SaveAppConfig(Now, p, Io(c, "ok")),
            "save_app_config", KeyOf(p), TRUE, FALSE)

CallReload == Becomes(Reload(Now), "reload", None, FALSE, FALSE)

CallCopy ==
  \E source \in {A_PY, B_PY}, destination \in {A_PY, B_PY, A_LAYOUT} :
    Becomes(Copy(Now, source, destination), "copy", destination, FALSE, FALSE)

CallReadFile == Becomes(ReadFile(Now), "read_file", None, FALSE, FALSE)

CallToCode == Becomes(ToCode(Now), "to_code", None, FALSE, FALSE)

CallReadCssFile ==
  \E race \in Races :
    Becomes(ReadSideFile(Now, app.config.css_file, race),
            "read_css_file", app.config.css_file, FALSE, FALSE)

CallReadHtmlHeadFile ==
  \E race \in Races :
    Becomes(ReadSideFile(Now, app.config.html_head_file, race),
            "read_html_head_file", app.config.html_head_file, FALSE, FALSE)

Next ==
  \/ CallSave
  \/ CallRename
  \/ CallSaveAppConfig
  \/ CallReload
  \/ CallCopy
  \/ CallReadFile
  \/ CallToCode
  \/ CallReadCssFile
  \/ CallReadHtmlHeadFile

Spec == Init /\ [][Next]_vars

\* A manager that starts unnamed.
InitUnnamed == Init /\ filename = None

SpecUnnamed == InitUnnamed /\ [][Next]_vars

----------------------------------------------------------------------------
\* Properties

Called == calls' = calls + 1

\* The canonical target of the call being made.
Target == Canonicalize(op'.arg)

ExtClass(f) == IF EndsWith(f, ".md") THEN "markup" ELSE "native"

IsNotebookText(c) == c.kind \in {"py", "md"}

\* C1: the first save of an unnamed manager with persist = true succeeds
\* unless the write itself fails, returns the generated text, leaves that
\* text in the file at the target, names the manager after the target; and a
\* save of a named manager at its own path succeeds unless the write fails.
C1_FirstSaveNames ==
  [][ /\ (Called /\ op'.kind = "save" /\ op'.persist /\ filename = None
            /\ op'.status # "server_error")
         => /\ op'.status = "ok"
            /\ IsNotebookText(op'.ret)
            /\ fs'[Target] = op'.ret
            /\ filename' = Target
      /\ (Called /\ op'.kind = "save" /\ filename # None
            /\ Target = Path(filename) /\ op'.status # "server_error")
         => op'.status = "ok" ]_vars

\* C2: a save of a named manager at a target whose canonical form is not
\* the manager's path is refused as a bad request, keeps the path and
\* writes nothing, with or without persist and layout.
C2_SaveNeverRelocates ==
  [][ (Called /\ op'.kind = "save" /\ filename # None
         /\ Target # Path(filename))
      => /\ op'.status = "bad_request"
         /\ filename' = filename
         /\ fs' = fs ]_vars

C2_Witness ==
  /\ op.kind = "save" /\ op.status = "bad_request"
  /\ op.persist /\ op.layout
  /\ filename # None /\ Canonicalize(op.arg) # Path(filename)

\* C3: a rename onto an existing file that is not the manager's own is
\* refused as a bad request, keeps the path and leaves every file as it was.
C3_RenameNeverOverwrites ==
  [][ (Called /\ op'.kind = "rename" /\ Target # Path(filename)
         /\ fs[Target].kind # "nofile")
      => /\ op'.status = "bad_request"
         /\ filename' = filename
         /\ fs' = fs ]_vars

C3_Witness ==
  /\ op.kind = "rename" /\ op.status = "bad_request"
  /\ filename # None /\ Canonicalize(op.arg) # Path(filename)
  /\ fs[Canonicalize(op.arg)].kind # "nofile"

\* C4: a rename that ends in an error leaves the manager's path as it was.
C4_FailedRenameKeepsPath ==
  [][ (Called /\ op'.kind = "rename" /\ op'.status # "ok")
      => filename' = filename ]_vars

\* C5: a save that ends in an error leaves the in-memory document (cells
\* and app config) as it was.
C5_FailedSaveKeepsDocument ==
  [][ (Called /\ op'.kind = "save" /\ op'.status # "ok")
      => app' = app ]_vars

\* C6: once the manager has a path, it has one after every call.
C6_NeverUnnamedAgain == [][ filename # None => filename' # None ]_vars

\* A named manager after a call that failed, and after a reload of a file
\* that holds no document.
C6_Witness ==
  /\ filename # None /\ calls > 0
  /\ \/ op.kind \in {"rename", "save", "save_app_config"} /\ op.status # "ok"
     \/ op.kind = "reload" /\ ~GetApp(fs, Path(filename)).found

\* C7: a save with persist = false leaves the filesystem as it was, and
\* returns the generated text when it returns.
C7_DryRunLeavesDisk ==
  [][ (Called /\ op'.kind = "save" /\ ~op'.persist)
      => /\ fs' = fs
         /\ op'.status = "ok" => IsNotebookText(op'.ret) ]_vars

\* C8: a successful rename of a named manager to a path of the other
\* extension class leaves at the new path the in-memory document written in
\* the new path's format, and no file at the old path.
C8_RenameAcrossClassesResaves ==
  [][ (Called /\ op'.kind = "rename" /\ op'.status = "ok" /\ filename # None
         /\ ExtClass(filename) # ExtClass(Target))
      => /\ fs'[Target].kind = (IF ExtClass(Target) = "markup" THEN "md" ELSE "py")
         /\ fs'[Target].cells = app.cells
         /\ fs'[Target].config = app.config
         /\ fs'[Path(filename)] = NoFile
         /\ filename' = Target ]_vars

C8_Witness ==
  /\ calls = 1 /\ op.kind = "rename" /\ op.status = "ok"
  /\ filename = A_MD /\ fs[A_MD].kind = "md" /\ fs[A_PY] = NoFile

\* C9: a rename repeated right after it succeeded returns without error and
\* changes neither the path, the document nor any file.
C9_RenameIdempotent ==
  [][ (Called /\ op.kind = "rename" /\ op.status = "ok"
         /\ op'.kind = "rename" /\ op'.arg = op.arg)
      => /\ op'.status = "ok"
         /\ filename' = filename
         /\ app' = app
         /\ fs' = fs ]_vars

C9_Witness ==
  /\ op.kind = "rename" /\ op.status = "ok" /\ again
  /\ filename = B_PY /\ fs[B_PY].kind # "nofile"

\* C10 as stated: a manager constructed with no path, or with a path that
\* holds no parsable document, is unnamed and has exactly one empty cell.
C10_UnparsableLoadsUnnamed ==
  (op.kind = "init" /\ ~GetApp(fs, Path(op.arg)).found)
  => (filename = None /\ app.cells = <<EmptyCell>>)

\* C10 amended: a manager constructed with no path is unnamed, one
\* constructed with a path that holds no parsable document keeps that path;
\* both have exactly one empty cell.
C10_UnparsableLoadsOneCell ==
  (op.kind = "init" /\ ~GetApp(fs, Path(op.arg)).found)
  => /\ app.cells = <<EmptyCell>>
     /\ filename = None <=> op.arg = None
     /\ op.arg # None => Path(filename) = Abspath(op.arg)

C10_Witness ==
  /\ op.kind = "init" /\ op.arg = <<"a", ".py">>
  /\ fs[A_PY] = TextFile /\ filename # None /\ app.cells = <<EmptyCell>>

\* C11: the document has at least one cell in every state.
C11_AtLeastOneCell == Len(app.cells) >= 1

\* The config save_app_config is to leave, from the key the call carries.
Merged ==
  IF op'.arg = <<"layout_file">> THEN [app.config EXCEPT !.layout_file = None]
  ELSE [app.config EXCEPT !.css_file = CSS_NAME]

\* C12: save_app_config merges the partial config into the document; on a
\* named manager it writes the document with the merged config to the
\* manager's path and keeps the path; on an unnamed manager it returns the
\* empty string, changes no file and leaves the manager unnamed.
C12_UpdateConfigByNamingState ==
  [][ (Called /\ op'.kind = "save_app_config")
      => /\ filename' = filename
         /\ app'.config = Merged
         /\ app'.cells = app.cells
         /\ (filename # None /\ op'.status = "ok")
            => /\ fs'[Path(filename)] = op'.ret
               /\ IsNotebookText(op'.ret)
               /\ op'.ret.config = Merged
               /\ op'.ret.cells = app.cells
         /\ filename = None
            => /\ op'.status = "ok"
               /\ op'.ret = EmptyFile
               /\ fs' = fs ]_vars

C12_Witness ==
  /\ op.kind = "save_app_config" /\ op.status = "ok" /\ op.arg = <<"css_file">>
  /\ filename # None /\ fs[Path(filename)].config.css_file = CSS_NAME
  /\ fs[Path(filename)] = op.ret

MutatingCalls == {"save", "rename", "save_app_config", "copy", "reload"}

\* The side files the document's config names, resolved.
Referenced ==
  { Abspath(n) : n \in {app.config.layout_file, app.config.css_file,
                        app.config.html_head_file} \ {None} }

\* C13 as stated: save, rename, save_app_config, copy and reload leave every
\* existing file the config names as layout, css or html head file as it is,
\* except the layout file a save with a layout writes.
C13_SideFilesUntouched ==
  [][ (Called /\ op'.kind \in MutatingCalls)
      => \A p \in Referenced :
           fs[p].kind # "nofile"
           => \/ fs'[p] = fs[p]
              \/ /\ op'.kind = "save" /\ op'.layout
                 /\ p = Abspath(LayoutName(Target)) ]_vars

\* C13 amended: ... except the layout file a save with a layout writes and
\* the file a copy names as its destination.
C13_SideFilesUntouchedButByCopy ==
  [][ (Called /\ op'.kind \in MutatingCalls)
      => \A p \in Referenced :
           fs[p].kind # "nofile"
           => \/ fs'[p] = fs[p]
              \/ /\ op'.kind = "save" /\ op'.layout
                 /\ p = Abspath(LayoutName(Target))
              \/ op'.kind = "copy" /\ op'.arg = p ]_vars

\* A save without a layout cleared the reference of a manager constructed on
\* a notebook naming its layout file; the layout file is as it was.
C13_Witness ==
  /\ calls = 1 /\ op.kind = "save" /\ op.status = "ok" /\ ~op.layout
  /\ filename = <<"a", ".py">> /\ app.config.layout_file = None
  /\ fs[A_LAYOUT] = OldLayout /\ fs[C_CSS] = CssFile /\ fs[H_HEAD] = HeadFile

\* C14: read_file on an unnamed manager is a bad request; on a named manager
\* whose file exists it returns the file's text stripped; it changes neither
\* the manager nor any file.
C14_ReadRaw ==
  [][ (Called /\ op'.kind = "read_file")
      => /\ filename' = filename /\ app' = app /\ fs' = fs
         /\ filename = None => op'.status = "bad_request"
         /\ (filename # None /\ fs[Path(filename)].kind # "nofile")
            => /\ op'.status = "ok"
               /\ op'.ret = Strip(fs[Path(filename)]) ]_vars

C14_Witness ==
  /\ op.kind = "read_file" /\ op.status = "ok" /\ op.ret.kind = "py.strip"
  /\ filename # None /\ fs[Path(filename)].kind = "py"

SideReads == {"read_css_file", "read_html_head_file"}

\* C15: reading the css or html head file returns absent without raising
\* when the config names no file, the manager is unnamed, or no file is at
\* the resolved path when it is opened; the manager is left as it was.
C15_SideReadersFailSoftly ==
  [][ (Called /\ op'.kind \in SideReads)
      => /\ filename' = filename /\ app' = app
         /\ op'.status = "ok"
         /\ op'.arg = (IF op'.kind = "read_css_file" THEN app.config.css_file
                       ELSE app.config.html_head_file)
         /\ (op'.arg = None \/ filename = None
               \/ fs'[SidePath(op'.arg, filename)].kind = "nofile")
            => op'.ret = NoText ]_vars

C15_Witness ==
  /\ op.kind = "read_css_file" /\ op.arg = CSS_NAME /\ filename # None
  /\ fs[C_CSS] = NoFile /\ op.status = "ok" /\ op.ret = NoText

\* C16: rename of an unnamed manager to a path without a file creates an
\* empty file there, names the manager after it and leaves the document and
\* the other files; when the creation fails the manager stays unnamed.
C16_RenameUnnamedCreates ==
  [][ (Called /\ op'.kind = "rename" /\ filename = None
         /\ fs[Target].kind = "nofile")
      => /\ app' = app
         /\ op'.status \in {"ok", "server_error"}
         /\ op'.status = "ok"
            => /\ fs'[Target] = EmptyFile
               /\ filename' = Target
               /\ \A q \in Paths \ {Target} : fs'[q] = fs[q]
         /\ op'.status # "ok" => filename' = None ]_vars

C16_Witness ==
  /\ calls = 1 /\ op.kind = "rename" /\ op.status = "ok"
  /\ filename = B_PY /\ fs[B_PY] = EmptyFile

\* C17: a save that ends in an error leaves every file as it was.
C17_FailedSaveKeepsFiles ==
  [][ (Called /\ op'.kind = "save" /\ op'.status # "ok") => fs' = fs ]_vars

\* The path a save or save_app_config writes.
Written == IF op'.kind = "save" THEN Target ELSE Path(filename)

\* C18: a save or save_app_config that writes a native file over a native
\* file with a header comment block leaves that block at its head.
C18_HeaderPreserved ==
  [][ (Called /\ op'.kind \in {"save", "save_app_config"} /\ op'.persist
         /\ op'.status = "ok" /\ filename # None
         /\ ExtClass(Written) = "native" /\ fs[Written].kind = "py")
      => /\ fs'[Written].kind = "py"
         /\ fs'[Written].header = fs[Written].header ]_vars

C18_Witness ==
  /\ op.kind = "save" /\ op.status = "ok" /\ op.persist
  /\ filename # None /\ fs[Path(filename)] = op.ret
  /\ op.ret.kind = "py" /\ op.ret.header = "#!h"

\* C19: a successful rename of a named manager to another path leaves no
\* file at the old path, a file at the new one, the document and every other
\* file as they were; within one extension class the file at the new path is
\* the file that was at the old one.
C19_RenameMovesOneFile ==
  [][ (Called /\ op'.kind = "rename" /\ op'.status = "ok" /\ filename # None
         /\ Target # Path(filename))
      => /\ fs'[Path(filename)] = NoFile
         /\ fs'[Target].kind # "nofile"
         /\ app' = app
         /\ filename' = Target
         /\ \A q \in Paths \ {Target, Path(filename)} : fs'[q] = fs[q]
         /\ ExtClass(filename) = ExtClass(Target)
            => fs'[Target] = fs[Path(filename)] ]_vars

C19_Witness ==
  /\ calls = 1 /\ op.kind = "rename" /\ op.status = "ok"
  /\ filename = B_PY /\ fs[B_PY].kind = "py" /\ fs[A_PY] = NoFile

\* C20: for a manager that starts unnamed, whenever the manager has a path a
\* file is at that path, and the path changes only in a save or rename that
\* succeeds and whose target it becomes.
C20_NamedHasFile ==
  [][ /\ filename' # None => fs'[Path(filename')].kind # "nofile"
      /\ filename' # filename
         => /\ op'.kind \in {"save", "rename"}
            /\ op'.status = "ok"
            /\ filename' = Target ]_vars

====
